---- MODULE Spec2Model ----
(***************************************************************************)
(* Model of the AgentPlatform.Core router: the MasterAgent (routing,       *)
(* comparison fan-out, execution details) in core/master_agent.py, the     *)
(* AgentManager's configuration load in core/agent_manager.py, and the     *)
(* AgentSystemManager with its file watcher and reload endpoints in        *)
(* api_server.py.                                                          *)
(*                                                                         *)
(* Python strings are sequences of one-character strings, so that          *)
(* lower(), the `in` substring test and re.sub are computed character by   *)
(* character.                                                              *)
(***************************************************************************)
EXTENDS Integers, Sequences, FiniteSets, TLC

VARIABLES
  file,           \* agents.json on disk: [kind, defs]
  tools_file,     \* toolkit/tools.json on disk: "bad" or the set of tool ids it lists
  dtm,            \* AgentManager.dynamic_tool_manager.tools_config (tool ids)
  am_sub_agents,  \* AgentManager.sub_agents: [id, names]
  master,         \* AgentSystemManager.master_agent: None or [sub_agents, agent_executor]
  booted,         \* initialize_system has been run
  observer,       \* AgentSystemManager.observer is running
  pending,        \* file-system events queued for the watcher thread
  now,            \* time.time(), in seconds
  last_modified,  \* AgentConfigHandler.last_modified
  rl,             \* per reload thread: [pc, new, outcome]
  rq,             \* per request thread: the locals of process_request_with_details
  next_id,        \* identity of the next list object load_agents_from_config allocates
  ops,            \* number of external triggers so far (bounds the run)
  tk,             \* a tool of the DynamicToolManager: its build and its last invocation
  sn              \* a name handed to the sanitizer, and the name it was given

vars == <<tk, sn, file, tools_file, dtm, am_sub_agents, master, booted, observer, pending, now,
          last_modified, rl, rq, next_id, ops>>

None == "None"

\* no tool has been built, no name sanitized
NoTool == [phase |-> "none"]
NoName == [phase |-> "none"]

(***************************************************************************)
(* Strings.                                                                *)
(***************************************************************************)
Uppers == <<"A","B","C","D","E","F","G","H","I","J","K","L","M",
            "N","O","P","Q","R","S","T","U","V","W","X","Y","Z","U+0110">>
Lowers == <<"a","b","c","d","e","f","g","h","i","j","k","l","m",
            "n","o","p","q","r","s","t","u","v","w","x","y","z","U+0111">>
AsciiLetters == {Uppers[i] : i \in 1..26} \cup {Lowers[i] : i \in 1..26}
Digits == {"0","1","2","3","4","5","6","7","8","9"}

\* str.lower(), on the alphabet the inputs are drawn from
LowerChar(c) ==
  IF \E i \in 1..Len(Uppers) : Uppers[i] = c
    THEN Lowers[CHOOSE i \in 1..Len(Uppers) : Uppers[i] = c]
    ELSE c
Lower(s) == [i \in 1..Len(s) |-> LowerChar(s[i])]

\* needle in hay
Contains(hay, needle) ==
  \E i \in 1..(Len(hay) - Len(needle) + 1) :
    SubSeq(hay, i, i + Len(needle) - 1) = needle

\* any(keyword.lower() in user_input.lower() for keyword in keywords)
AnyKeywordIn(keywords, user_input) ==
  \E k \in 1..Len(keywords) : Contains(Lower(user_input), Lower(keywords[k]))

RECURSIVE Join(_)
\* " ".join(words)
Join(words) ==
  IF Len(words) = 0 THEN <<>>
  ELSE IF Len(words) = 1 THEN words[1]
  ELSE words[1] \o <<" ">> \o Join(Tail(words))

(***************************************************************************)
(* MasterAgent._sanitize_sub_agent_tools                                   *)
(***************************************************************************)
MaxNameLen == 64

\* re.sub(r'[^a-zA-Z0-9_.-]', '_', original_name)
SanitizeChar(c) ==
  IF c \in AsciiLetters \cup Digits \cup {"_", ".", "-"} THEN c ELSE "_"

\* a sanitizer that never prepends the underscore
SanitizeWithoutPrefix(original_name) ==
  LET replaced == [i \in 1..Len(original_name) |-> SanitizeChar(original_name[i])]
  IN  SubSeq(replaced, 1, IF Len(replaced) < MaxNameLen THEN Len(replaced) ELSE MaxNameLen)

\* a sanitizer that cuts to the maximum length before it prepends the underscore
SanitizeCutThenPrefix(original_name) ==
  LET replaced == [i \in 1..Len(original_name) |-> SanitizeChar(original_name[i])]
      cut == SubSeq(replaced, 1, IF Len(replaced) < MaxNameLen THEN Len(replaced) ELSE MaxNameLen)
  IN  IF Len(cut) > 0 /\ cut[1] \in AsciiLetters \cup {"_"} THEN cut ELSE <<"_">> \o cut

SanitizeName(original_name) ==
  LET replaced == [i \in 1..Len(original_name) |-> SanitizeChar(original_name[i])]
      prefixed == IF Len(replaced) > 0 /\ replaced[1] \in AsciiLetters \cup {"_"}
                    THEN replaced
                    ELSE <<"_">> \o replaced
  IN  SubSeq(prefixed, 1, IF Len(prefixed) < MaxNameLen THEN Len(prefixed) ELSE MaxNameLen)

\* the loop over the list: every agent_tool.name is rewritten in place
_sanitize_sub_agent_tools(names) == [i \in 1..Len(names) |-> SanitizeName(names[i])]

(***************************************************************************)
(* MasterAgent._detect_comparison_request                                  *)
(***************************************************************************)
comparison_keywords ==
  << <<"s","o"," ","s","U+00E1","n","h">>,
     <<"c","o","m","p","a","r","e">>,
     <<"c","h","U+1ECD","n"," ","g","i","U+1EEF","a">>,
     <<"c","h","o","o","s","e"," ","b","e","t","w","e","e","n">>,
     <<"k","h","U+00E1","c"," ","n","h","a","u">>,
     <<"d","i","f","f","e","r","e","n","c","e">>,
     <<"n","U+00EA","n"," ","c","h","U+1ECD","n">>,
     <<"s","h","o","u","l","d"," ","c","h","o","o","s","e">>,
     <<"p","h","U+00F9"," ","h","U+1EE3","p"," ","h","U+01A1","n">>,
     <<"m","o","r","e"," ","s","u","i","t","a","b","l","e">>,
     <<"t","U+1ED1","t"," ","h","U+01A1","n">>,
     <<"b","e","t","t","e","r">>,
     <<"U+01B0","u"," ","n","h","U+01B0","U+1EE3","c"," ","U+0111","i","U+1EC3","m">>,
     <<"p","r","o","s"," ","a","n","d"," ","c","o","n","s">>,
     <<"l","U+1EF1","a"," ","c","h","U+1ECD","n">>,
     <<"c","h","o","i","c","e">>,
     <<"q","u","y","U+1EBF","t"," ","U+0111","U+1ECB","n","h">>,
     <<"d","e","c","i","d","e">> >>
fnb_keywords ==
  << <<"f","n","b">>,
     <<"f","&","b">>,
     <<"f","o","o","d">>,
     <<"b","e","v","e","r","a","g","e">>,
     <<"n","h","U+00E0"," ","h","U+00E0","n","g">>,
     <<"r","e","s","t","a","u","r","a","n","t">>,
     <<"q","u","U+00E1","n"," ","U+0103","n">>,
     <<"m","U+00F3","n"," ","U+0103","n">>,
     <<"t","h","U+1EE9","c"," ","u","U+1ED1","n","g">> >>
booking_keywords ==
  << <<"b","o","o","k","i","n","g">>,
     <<"U+0111","U+1EB7","t"," ","p","h","U+00F2","n","g">>,
     <<"h","o","t","e","l">>,
     <<"k","h","U+00E1","c","h"," ","s","U+1EA1","n">>,
     <<"r","e","s","o","r","t">>,
     <<"h","o","m","e","s","t","a","y">>,
     <<"a","c","c","o","m","m","o","d","a","t","i","o","n">> >>

fnb == <<"f","n","b">>
booking == <<"b","o","o","k","i","n","g">>
sale_support_ == <<"s","a","l","e","_","s","u","p","p","o","r","t","_">>

\* model_keywords, in dict order
model_types == <<fnb, booking>>
model_keywords(model_type) == IF model_type = fnb THEN fnb_keywords ELSE booking_keywords

\* helper of the loop of lines 87-90: the model types of `types` whose keywords occur
RECURSIVE DetectedModels(_, _)
DetectedModels(types, user_input) ==
  IF Len(types) = 0 THEN <<>>
  ELSE (IF AnyKeywordIn(model_keywords(types[1]), user_input) THEN <<types[1]>> ELSE <<>>)
       \o DetectedModels(Tail(types), user_input)

\* a detection that is content with one category
DetectWithOneCategory(user_input) ==
  LET is_comparison == AnyKeywordIn(comparison_keywords, user_input)
      detected_models == DetectedModels(model_types, user_input)
  IN  [is_comparison |-> is_comparison /\ Len(detected_models) >= 1,
       models |-> detected_models]

_detect_comparison_request(user_input) ==
  LET is_comparison == AnyKeywordIn(comparison_keywords, user_input)
      detected_models == DetectedModels(model_types, user_input)
  IN  [is_comparison |-> is_comparison /\ Len(detected_models) >= 2,
       models |-> detected_models]

(***************************************************************************)
(* MasterAgent._find_agents_by_model_type                                  *)
(***************************************************************************)
\* the condition of line 113
NameMatches(name, model_type) ==
  \/ Contains(Lower(name), sale_support_ \o model_type)
  \/ Contains(Lower(name), model_type)

RECURSIVE _find_agents_by_model_type(_, _)
\* for each model type, the first agent of sub_agents whose name matches (then break)
_find_agents_by_model_type(sub_agents, types) ==
  IF Len(types) = 0 THEN <<>>
  ELSE LET hits == {i \in 1..Len(sub_agents) : NameMatches(sub_agents[i], types[1])}
           first == IF hits = {} THEN <<>>
                    ELSE <<sub_agents[CHOOSE i \in hits : \A j \in hits : i <= j]>>
       IN  first \o _find_agents_by_model_type(sub_agents, Tail(types))

(***************************************************************************)
(* Inputs: agent names, tool manifests, agents.json contents.              *)
(***************************************************************************)
N_fnb  == <<"S","a","l","e","_","S","u","p","p","o","r","t","_","F","N","B">>
N_book == <<"b","o","o","k","i","n","g"," ","a","g","e","n","t">>
N_both == <<"F","N","B","_","B","o","o","k","i","n","g">>
N_hr   == <<"H","R","_","A","g","e","n","t">>

AgentDef(name, tool_ids) == [agent_name |-> name, tools |-> tool_ids]

\* toolkit/tools.json: unreadable, or the tool ids it lists
ToolsBad   == [ok |-> FALSE, ids |-> {}]
ToolsFull  == [ok |-> TRUE, ids |-> {"google_search_tool", "jira_tool"}]
ToolsFiles == {ToolsBad, ToolsFull}

CfgPair == <<AgentDef(N_fnb, <<"google_search_tool">>), AgentDef(N_book, <<"jira_tool">>)>>
CfgBoth == <<AgentDef(N_both, <<"google_search_tool">>), AgentDef(N_hr, <<"jira_tool">>)>>
CfgNone == <<AgentDef(N_hr, <<"unknown_tool">>)>>
AgentLists == {CfgPair, CfgBoth, CfgNone}

ListFile(defs) == [kind |-> "list", defs |-> defs]
BadFile(kind)  == [kind |-> kind, defs |-> <<>>]
FileValues ==
  {BadFile(k) : k \in {"missing", "badjson", "notlist"}} \cup
  {ListFile(d) : d \in AgentLists}

NoList == [id |-> 0, names |-> <<>>]
NoMaster == [present |-> FALSE, sub_agents |-> NoList, agent_executor |-> [tools |-> NoList]]

(***************************************************************************)
(* AgentManager                                                            *)
(***************************************************************************)
\* DynamicToolManager.create_tools_for_agent: the tool ids of the agent that the
\* manifest resolves, in order; the others are skipped with a warning
create_tools_for_agent(config, tools_config) ==
  SelectSeq(config.tools, LAMBDA tool_id : tool_id \in tools_config)

\* AgentManager.create_sub_agent returns an agent tool unless the tool list is
\* empty (ValueError) or the LLM client cannot be created (RuntimeError)
Assembles(config, tools_config, llm_ok) ==
  /\ Len(create_tools_for_agent(config, tools_config)) > 0
  /\ llm_ok

RECURSIVE AssembleAll(_, _, _)
\* the loop of load_agents_from_config: a failing agent is reported and skipped
AssembleAll(configs, tools_config, llm_ok) ==
  IF Len(configs) = 0 THEN <<>>
  ELSE (IF Assembles(configs[1], tools_config, llm_ok)
          THEN <<configs[1].agent_name>> ELSE <<>>)
       \o AssembleAll(Tail(configs), tools_config, llm_ok)

\* AgentManager.load_agents_from_config: what it raises, or "ok"
LoadError(f) ==
  CASE f.kind = "missing" -> "missing"
    [] f.kind \in {"empty", "badjson"} -> "badjson"
    [] f.kind = "notlist" -> "notlist"
    [] OTHER -> "ok"

(***************************************************************************)
(* MasterAgent construction and update                                     *)
(***************************************************************************)
\* a list object whose agent tools have been renamed in place
Sanitized(list) == [id |-> list.id, names |-> _sanitize_sub_agent_tools(list.names)]

\* the agent tools are shared with AgentManager.sub_agents when that is the same list
AfterSanitize(held, list) == IF held.id = list.id THEN Sanitized(list) ELSE held

\* MasterAgent._create_master_agent_executor: an executor over self.sub_agents
_create_master_agent_executor(sub_agents) == [tools |-> sub_agents]

\* MasterAgent.__init__
MasterAgent(sub_agents_as_tools) ==
  [present |-> TRUE,
   sub_agents |-> Sanitized(sub_agents_as_tools),
   agent_executor |-> _create_master_agent_executor(Sanitized(sub_agents_as_tools))]

\* MasterAgent.update_sub_agents, line 720
UpdateSubAgents(m, new_sub_agents) == [m EXCEPT !.sub_agents = Sanitized(new_sub_agents)]
\* MasterAgent.update_sub_agents, line 721
UpdateExecutor(m) == [m EXCEPT !.agent_executor = _create_master_agent_executor(m.sub_agents)]

(***************************************************************************)
(* Threads                                                                 *)
(***************************************************************************)
Watcher   == "watcher"      \* the watchdog observer thread
ApiReload == "api_reload"   \* a request thread serving POST /api/reload
ApiSync   == "api_sync"     \* a request thread serving POST /api/agents/sync
Reloaders == {Watcher, ApiReload, ApiSync}

MaxOps      == 2   \* external triggers (edits, endpoint calls, user requests) in a run
MaxTime     == 2   \* seconds the clock advances
MaxRequests == 1   \* concurrent user requests
Cooldown    == 2
StartTime   == 2

Requests == 1..MaxRequests

IdleReloader == [pc |-> "idle", new |-> NoList, outcome |-> "none", why |-> "none", data |-> <<>>]

\* reload_agents ends: returned, returned after a warning, or raised
Finish(t, outcome, why) ==
  rl' = [rl EXCEPT ![t] = [pc |-> "idle", new |-> NoList, outcome |-> outcome,
                           why |-> why, data |-> <<>>]]
Goto(t, pc) == rl' = [rl EXCEPT ![t].pc = pc]

(***************************************************************************)
(* Initial state: AgentSystemManager() has been constructed (api_server.py  *)
(* 175-186); AgentManager() has loaded the tool manifest.                  *)
(***************************************************************************)
IdleRequest ==
  [pc |-> "idle", user_input |-> <<>>, history |-> FALSE,
   analysis |-> [is_comparison |-> FALSE, models |-> <<>>],
   matching_agents |-> <<>>, agent_responses |-> <<>>, invoked |-> <<>>,
   seen_find |-> NoList, seen_exec |-> NoList, seen_classify |-> NoList,
   path |-> "none", result |-> <<>>]

Init ==
  /\ file \in {ListFile(CfgPair), ListFile(CfgNone), BadFile("missing")}
  /\ tools_file = ToolsFull
  /\ dtm = ToolsFull.ids
  /\ am_sub_agents = NoList
  /\ master = NoMaster
  /\ booted = FALSE
  /\ observer = FALSE
  /\ pending = 0
  /\ now = StartTime
  /\ last_modified = 0
  /\ rl = [t \in Reloaders |-> IdleReloader]
  /\ rq = [r \in Requests |-> IdleRequest]
  /\ next_id = 1
  /\ ops = 0
  /\ tk = NoTool
  /\ sn = NoName

(***************************************************************************)
(* AgentSystemManager.initialize_system (api_server.py 188-231), run once  *)
(* before the watcher and the HTTP server start.                           *)
(***************************************************************************)
\* an initialization that builds the MasterAgent from whatever was loaded
InitializeWithoutEmptyCheck(llm_ok) ==
  /\ ~booted
  /\ booted' = TRUE
  /\ observer' = (llm_ok /\ LoadError(file) = "ok")
  /\ LET loaded == [id |-> next_id,
                    names |-> AssembleAll(file.defs, dtm, llm_ok)]
     IN  IF llm_ok /\ LoadError(file) = "ok"
           THEN /\ am_sub_agents' = Sanitized(loaded)
                /\ next_id' = next_id + 1
                /\ master' = MasterAgent(loaded)
           ELSE /\ master' = NoMaster
                /\ UNCHANGED <<tk, sn, am_sub_agents, next_id>>
  /\ UNCHANGED <<tk, sn, file, tools_file, dtm, pending, now, last_modified, rl, rq, ops>>

initialize_system(llm_ok) ==
  /\ ~booted
  /\ booted' = TRUE
  /\ observer' = (llm_ok /\ LoadError(file) = "ok" /\ Len(AssembleAll(file.defs, dtm, llm_ok)) > 0)
  /\ LET loaded == [id |-> next_id,
                    names |-> AssembleAll(file.defs, dtm, llm_ok)]
     IN  IF llm_ok /\ LoadError(file) = "ok"
           THEN /\ am_sub_agents' = (IF Len(loaded.names) > 0 THEN Sanitized(loaded) ELSE loaded)
                /\ next_id' = next_id + 1
                /\ master' = IF Len(loaded.names) > 0 THEN MasterAgent(loaded) ELSE NoMaster
           ELSE /\ master' = NoMaster
                /\ UNCHANGED <<tk, sn, am_sub_agents, next_id>>
  /\ UNCHANGED <<tk, sn, file, tools_file, dtm, pending, now, last_modified, rl, rq, ops>>

(***************************************************************************)
(* Environment: edits of the two files, and the clock.                     *)
(***************************************************************************)

EditFile(f) ==
  /\ booted /\ ops < MaxOps
  /\ f # file
  /\ file' = f
  /\ pending' = IF observer /\ f.kind # "missing" THEN pending + 1 ELSE pending
  /\ ops' = ops + 1
  /\ UNCHANGED <<tk, sn, tools_file, dtm, am_sub_agents, master, booted, observer, now, last_modified,
                 rl, rq, next_id>>

EditTools(tf) ==
  /\ booted /\ ops < MaxOps
  /\ tf # tools_file
  /\ tools_file' = tf
  /\ ops' = ops + 1
  /\ UNCHANGED <<tk, sn, file, dtm, am_sub_agents, master, booted, observer, pending, now, last_modified,
                 rl, rq, next_id>>

Tick ==
  /\ booted /\ now < StartTime + MaxTime
  /\ now' = now + 1
  /\ UNCHANGED <<tk, sn, file, tools_file, dtm, am_sub_agents, master, booted, observer, pending,
                 last_modified, rl, rq, next_id, ops>>

(***************************************************************************)
(* AgentConfigHandler._handle_config_change (api_server.py 125-160)        *)
(***************************************************************************)
\* a handler without the timestamp guard
HandleWithoutCooldown ==
  /\ pending > 0 /\ rl[Watcher].pc = "idle"
  /\ pending' = pending - 1
  /\ last_modified' = now
  /\ Goto(Watcher, "sleep")
  /\ UNCHANGED <<tk, sn, file, tools_file, dtm, am_sub_agents, master, booted, observer, now, rq, next_id, ops>>

\* lines 128-132: the cooldown guard
_handle_config_change ==
  /\ pending > 0 /\ rl[Watcher].pc = "idle"
  /\ pending' = pending - 1
  /\ IF now - last_modified < Cooldown
       THEN /\ Finish(Watcher, "ignored", "cooldown")
            /\ UNCHANGED last_modified
       ELSE /\ last_modified' = now
            /\ Goto(Watcher, "sleep")
  /\ UNCHANGED <<tk, sn, file, tools_file, dtm, am_sub_agents, master, booted, observer, now, rq, next_id, ops>>

\* lines 139-157: after the sleep, the file must exist and be non-empty
WatcherCheck ==
  /\ rl[Watcher].pc = "sleep"
  /\ IF file.kind \in {"missing", "empty"}
       THEN Finish(Watcher, "logged", file.kind)
       ELSE Goto(Watcher, "manifest")
  /\ UNCHANGED <<tk, sn, file, tools_file, dtm, am_sub_agents, master, booted, observer, pending, now,
                 last_modified, rq, next_id, ops>>

(***************************************************************************)
(* POST /api/reload (api_server.py 704-731)                                *)
(***************************************************************************)
reload_agents_endpoint ==
  /\ booted /\ ops < MaxOps
  /\ rl[ApiReload].pc = "idle"
  /\ Goto(ApiReload, "manifest")
  /\ ops' = ops + 1
  /\ UNCHANGED <<tk, sn, file, tools_file, dtm, am_sub_agents, master, booted, observer, pending, now,
                 last_modified, rq, next_id>>

(***************************************************************************)
(* POST /api/agents/sync (api_server.py 734-821)                           *)
(***************************************************************************)
\* lines 775-790: the temporary file is written and agents.json removed
sync_agents(agents_data) ==
  /\ booted /\ ops < MaxOps
  /\ rl[ApiSync].pc = "idle"
  /\ rl' = [rl EXCEPT ![ApiSync].pc = "rename", ![ApiSync].data = agents_data]
  /\ file' = BadFile("missing")
  /\ ops' = ops + 1
  /\ UNCHANGED <<tk, sn, tools_file, dtm, am_sub_agents, master, booted, observer, pending, now,
                 last_modified, rq, next_id>>

\* line 791: the rename publishes the new file; the observer sees a move
SyncRename ==
  /\ rl[ApiSync].pc = "rename"
  /\ file' = ListFile(rl[ApiSync].data)
  /\ pending' = IF observer THEN pending + 1 ELSE pending
  /\ Goto(ApiSync, "manifest")
  /\ UNCHANGED <<tk, sn, tools_file, dtm, am_sub_agents, master, booted, observer, now, last_modified,
                 rq, next_id, ops>>

(***************************************************************************)
(* AgentSystemManager.reload_agents (api_server.py 276-296), run by the    *)
(* thread t, one step per statement that reads or writes shared state.     *)
(***************************************************************************)
\* AgentManager.reload_agents, line 355: a fresh DynamicToolManager
ReloadManifest(t) ==
  /\ rl[t].pc = "manifest"
  /\ IF tools_file.ok
       THEN /\ dtm' = tools_file.ids
            /\ Goto(t, "load")
       ELSE /\ Finish(t, "raised", "tools")
            /\ UNCHANGED dtm
  /\ UNCHANGED <<tk, sn, file, tools_file, am_sub_agents, master, booted, observer, pending, now,
                 last_modified, rq, next_id, ops>>

\* AgentManager.load_agents_from_config (core/agent_manager.py 274-309)
load_agents_from_config(t, llm_ok) ==
  /\ rl[t].pc = "load"
  /\ IF LoadError(file) # "ok"
       THEN /\ Finish(t, "raised", LoadError(file))
            /\ UNCHANGED <<tk, sn, am_sub_agents, next_id>>
       ELSE LET loaded == [id |-> next_id, names |-> AssembleAll(file.defs, dtm, llm_ok)]
            IN  /\ am_sub_agents' = loaded
                /\ next_id' = next_id + 1
                /\ rl' = [rl EXCEPT ![t].pc = "publish", ![t].new = loaded]
  /\ UNCHANGED <<tk, sn, file, tools_file, dtm, master, booted, observer, pending, now, last_modified,
                 rq, ops>>

\* a publication without the check for an empty assembly
PublishWithoutEmptyCheck(t, llm_ok) ==
  /\ rl[t].pc = "publish"
  /\ am_sub_agents' = AfterSanitize(am_sub_agents, rl[t].new)
  /\ IF master.present
       THEN /\ master' = UpdateSubAgents(master, rl[t].new)
            /\ Goto(t, "executor")
       ELSE IF llm_ok
              THEN /\ master' = MasterAgent(rl[t].new)
                   /\ Finish(t, "ok", "none")
              ELSE /\ Finish(t, "raised", "executor")
                   /\ UNCHANGED master
  /\ UNCHANGED <<tk, sn, file, tools_file, dtm, booted, observer, pending, now, last_modified, rq,
                 next_id, ops>>

\* api_server.py 282-290 and MasterAgent.update_sub_agents line 720
PublishSubAgents(t, llm_ok) ==
  /\ rl[t].pc = "publish"
  /\ IF Len(rl[t].new.names) = 0
       THEN /\ Finish(t, "logged", "zero")
            /\ UNCHANGED <<tk, sn, master, am_sub_agents>>
       ELSE /\ am_sub_agents' = AfterSanitize(am_sub_agents, rl[t].new)
            /\ IF master.present
                 THEN /\ master' = UpdateSubAgents(master, rl[t].new)
                      /\ Goto(t, "executor")
                 ELSE \* create_master_agent: the object is assigned once constructed
                      IF llm_ok
                        THEN /\ master' = MasterAgent(rl[t].new)
                             /\ Finish(t, "ok", "none")
                        ELSE /\ Finish(t, "raised", "executor")
                             /\ UNCHANGED master
  /\ UNCHANGED <<tk, sn, file, tools_file, dtm, booted, observer, pending, now, last_modified, rq,
                 next_id, ops>>

\* MasterAgent.update_sub_agents line 721: the executor is rebuilt over self.sub_agents
PublishExecutor(t, llm_ok) ==
  /\ rl[t].pc = "executor"
  /\ IF llm_ok
       THEN /\ master' = UpdateExecutor(master)
            /\ Finish(t, "ok", "none")
       ELSE /\ Finish(t, "raised", "executor")
            /\ UNCHANGED master
  /\ UNCHANGED <<tk, sn, file, tools_file, dtm, am_sub_agents, booted, observer, pending, now,
                 last_modified, rq, next_id, ops>>

(***************************************************************************)
(* Texts. A text is a sequence of tokens; the empty text is <<>>. Agent    *)
(* names are spliced in character by character.                            *)
(***************************************************************************)
MaxSteps == 1   \* intermediate steps the decision-service loop reports

AnswerText(n)  == <<"answer">> \o [i \in 1..n |-> "'"]
ErrorText(n)   == <<"boom">> \o [i \in 1..n |-> "'"]
SummaryText    == <<"summary">>
NoResponse     == <<"No response generated">>
FallbackIntro(user_query) ==
  <<"**So sanh mo hinh kinh doanh**\n\nDua tren cau hoi: \"">> \o user_query \o <<"\"\n\n">>
FallbackCloser ==
  <<"**Ket luan:** Vui long lien he voi doi ngu tu van KiotViet de duoc ho tro chi tiet hon trong viec lua chon mo hinh kinh doanh phu hop.">>

\* line 155: the failure string recorded for a target
FailureText(name, e) == <<"Loi khi goi agent ">> \o name \o <<": ">> \o e

\* lines 175 and 220: the header label of an agent
ModelTypeLabel(agent_name) ==
  IF Contains(Lower(agent_name), fnb) THEN <<"FNB">>
  ELSE IF Contains(Lower(agent_name), booking) THEN <<"Booking">>
  ELSE agent_name

\* a dict with insertion order, as a sequence of <<key, value>>: d[key] = value
DictPut(d, key, value) ==
  IF \E i \in 1..Len(d) : d[i][1] = key
    THEN [i \in 1..Len(d) |-> IF d[i][1] = key THEN <<key, value>> ELSE d[i]]
    ELSE Append(d, <<key, value>>)
DictHas(d, key) == \E i \in 1..Len(d) : d[i][1] = key
DictGet(d, key, default) ==
  IF DictHas(d, key) THEN d[CHOOSE i \in 1..Len(d) : d[i][1] = key][2] ELSE default

RECURSIVE FallbackBody(_)
\* lines 219-221: one header and one body per entry of responses, in dict order
FallbackBody(responses) ==
  IF Len(responses) = 0 THEN <<>>
  ELSE <<"## Mo hinh ">> \o ModelTypeLabel(responses[1][1]) \o <<":\n">>
       \o responses[1][2] \o <<"\n\n">> \o FallbackBody(Tail(responses))

\* a fallback that stops after the last section
FallbackWithoutCloser(responses, user_query) ==
  FallbackIntro(user_query) \o FallbackBody(responses)

\* lines 210-225: the response when the synthesis raises
FallbackResponse(responses, user_query) ==
  FallbackIntro(user_query) \o FallbackBody(responses) \o FallbackCloser

\* MasterAgent._summarize_comparison_responses: the synthesis returns its
\* content (possibly empty) or raises
_summarize_comparison_responses(responses, user_query, synthesis) ==
  CASE synthesis = "content" -> SummaryText
    [] synthesis = "empty" -> <<>>
    [] OTHER -> FallbackResponse(responses, user_query)

Range(s) == {s[i] : i \in 1..Len(s)}
\* list(a_set): the elements in some order
ListOf(S) == {s \in [1..Cardinality(S) -> S] : Range(s) = S}

(***************************************************************************)
(* MasterAgent.process_request_with_details (435-549) and                  *)
(* process_request_with_details_and_history (551-679), run by request      *)
(* thread r against the shared MasterAgent.                                *)
(***************************************************************************)
ComparisonStep(agent_responses, name, history) ==
  [tool_name |-> name,
   tool_input |-> IF history THEN <<"Comparison query with history context">>
                             ELSE <<"Comparison query about business models">>,
   observation |-> DictGet(agent_responses, name, <<"No response">>)]
SummarizerStep(history) ==
  [tool_name |-> <<"comparison_summarizer">>,
   tool_input |-> IF history THEN <<"Summarize comparison responses with history">>
                             ELSE <<"Summarize comparison responses">>,
   observation |-> <<"Comparison summary generated">>]

\* lines 467-486
ComparisonResult(matching_agents, agent_responses, comparison_summary, history) ==
  [response |-> comparison_summary,
   agents_used |-> matching_agents,
   tools_used |-> matching_agents,
   execution_steps |->
     [i \in 1..Len(matching_agents) |->
        ComparisonStep(agent_responses, matching_agents[i], history)]
       \o <<SummarizerStep(history)>>,
   total_steps |-> Len(matching_agents) + 1,
   comparison_mode |-> TRUE,
   has_error |-> FALSE,
   error |-> <<>>]

\* lines 538-549
ErrorResult(e) ==
  [response |-> <<"Master Agent encountered an error: ">> \o e,
   agents_used |-> <<>>,
   tools_used |-> <<>>,
   execution_steps |-> <<>>,
   total_steps |-> 0,
   comparison_mode |-> FALSE,
   has_error |-> TRUE,
   error |-> e]

\* an intermediate step of the executor: a (action, observation) pair whose action
\* names a tool, or a malformed step with fewer than two components
CallStep(name) == [len |-> 2, tool |-> name]
ShortStep == [len |-> 1, tool |-> <<>>]
LeafTool == <<"c","a","l","c">>

\* lines 504-527: the tools named by the well-formed steps
ToolsOf(intermediate_steps) ==
  {intermediate_steps[i].tool : i \in {j \in 1..Len(intermediate_steps) : intermediate_steps[j].len >= 2}}
\* lines 514-517: the tool names that are names of self.sub_agents
AgentsOf(intermediate_steps, sub_agents) ==
  {n \in ToolsOf(intermediate_steps) : \E i \in 1..Len(sub_agents) : sub_agents[i] = n}
ExecutionSteps(intermediate_steps) ==
  LET wf == SelectSeq(intermediate_steps, LAMBDA s : s.len >= 2)
  IN  [i \in 1..Len(wf) |-> [tool_name |-> wf[i].tool, tool_input |-> <<"input">>,
                              observation |-> <<"observation">>]]

\* lines 529-536
SingleResult(output, intermediate_steps, agents_used, tools_used) ==
  [response |-> output,
   agents_used |-> agents_used,
   tools_used |-> tools_used,
   execution_steps |-> ExecutionSteps(intermediate_steps),
   total_steps |-> Len(intermediate_steps),
   comparison_mode |-> FALSE,
   has_error |-> FALSE,
   error |-> <<>>]

\* result.get("output", "No response generated"): the text, "" or no "output" key
OutputOf(out) ==
  CASE out = "text" -> <<"routed answer">>
    [] out = "empty" -> <<>>
    [] OTHER -> NoResponse

\* the decision service's behaviours, given the tools of the executor
StepChoices(tools) == {CallStep(n) : n \in Range(tools) \cup {LeafTool}} \cup {ShortStep}
StepSeqs(tools) == UNION {[1..n -> StepChoices(tools)] : n \in 0..MaxSteps}

\* the caller: AgentSystemManager.process_user_request checks self.master_agent
Receive(r, user_input, history) ==
  /\ booted /\ master.present /\ ops < MaxOps
  /\ rq[r].pc = "idle"
  /\ rq' = [rq EXCEPT ![r] = [IdleRequest EXCEPT !.pc = "analyze",
                                                 !.user_input = user_input,
                                                 !.history = history]]
  /\ ops' = ops + 1
  /\ UNCHANGED <<tk, sn, file, tools_file, dtm, am_sub_agents, master, booted, observer, pending, now,
                 last_modified, rl, next_id>>

\* a routing that fans out to a single target
AnalyzeOneTarget(r) ==
  /\ rq[r].pc = "analyze"
  /\ LET comparison_analysis == _detect_comparison_request(rq[r].user_input)
         matching_agents ==
           IF comparison_analysis.is_comparison
             THEN _find_agents_by_model_type(master.sub_agents.names, comparison_analysis.models)
             ELSE <<>>
     IN  rq' = [rq EXCEPT ![r].analysis = comparison_analysis,
                          ![r].matching_agents = matching_agents,
                          ![r].seen_find = IF comparison_analysis.is_comparison
                                             THEN master.sub_agents ELSE NoList,
                          ![r].pc = IF Len(matching_agents) >= 1 THEN "fanout" ELSE "single"]
  /\ UNCHANGED <<tk, sn, file, tools_file, dtm, am_sub_agents, master, booted, observer, pending, now,
                 last_modified, rl, next_id, ops>>

\* lines 450-459 (580-589): detection and target resolution
Analyze(r) ==
  /\ rq[r].pc = "analyze"
  /\ LET comparison_analysis == _detect_comparison_request(rq[r].user_input)
         matching_agents ==
           IF comparison_analysis.is_comparison
             THEN _find_agents_by_model_type(master.sub_agents.names, comparison_analysis.models)
             ELSE <<>>
     IN  rq' = [rq EXCEPT ![r].analysis = comparison_analysis,
                          ![r].matching_agents = matching_agents,
                          ![r].seen_find = IF comparison_analysis.is_comparison
                                             THEN master.sub_agents ELSE NoList,
                          ![r].pc = IF Len(matching_agents) >= 2 THEN "fanout" ELSE "single"]
  /\ UNCHANGED <<tk, sn, file, tools_file, dtm, am_sub_agents, master, booted, observer, pending, now,
                 last_modified, rl, next_id, ops>>

\* MasterAgent._call_multiple_agents (119-157): one iteration of the loop
_call_multiple_agents(r, outcome) ==
  /\ rq[r].pc = "fanout"
  /\ LET n == Len(rq[r].invoked) + 1
         agent == rq[r].matching_agents[n]
         response == CASE outcome = "answer" -> AnswerText(n)
                       [] outcome = "empty" -> <<>>
                       [] OTHER -> FailureText(agent, ErrorText(n))
     IN  rq' = [rq EXCEPT ![r].agent_responses = DictPut(@, agent, response),
                          ![r].invoked = Append(@, [name |-> agent, outcome |-> outcome]),
                          ![r].pc = IF n = Len(rq[r].matching_agents) THEN "synth" ELSE "fanout"]
  /\ UNCHANGED <<tk, sn, file, tools_file, dtm, am_sub_agents, master, booted, observer, pending, now,
                 last_modified, rl, next_id, ops>>

\* lines 463-486: synthesis and the comparison result
Summarize(r, synthesis) ==
  /\ rq[r].pc = "synth"
  /\ rq' = [rq EXCEPT
       ![r].pc = "done",
       ![r].path = IF synthesis = "raise" THEN "fallback" ELSE "synthesis",
       ![r].result = <<ComparisonResult(rq[r].matching_agents, rq[r].agent_responses,
                         _summarize_comparison_responses(rq[r].agent_responses,
                                                         rq[r].user_input, synthesis),
                         rq[r].history)>>]
  /\ UNCHANGED <<tk, sn, file, tools_file, dtm, am_sub_agents, master, booted, observer, pending, now,
                 last_modified, rl, next_id, ops>>

\* line 491 (621): self.agent_executor is read and invoked
Dispatch(r) ==
  /\ rq[r].pc = "single"
  /\ rq' = [rq EXCEPT ![r].pc = "invoked", ![r].seen_exec = master.agent_executor.tools]
  /\ UNCHANGED <<tk, sn, file, tools_file, dtm, am_sub_agents, master, booted, observer, pending, now,
                 last_modified, rl, next_id, ops>>

\* the invocation raises: lines 538-549
DispatchRaises(r) ==
  /\ rq[r].pc = "invoked"
  /\ rq' = [rq EXCEPT ![r].pc = "done", ![r].path = "error",
                      ![r].result = <<ErrorResult(ErrorText(1))>>]
  /\ UNCHANGED <<tk, sn, file, tools_file, dtm, am_sub_agents, master, booted, observer, pending, now,
                 last_modified, rl, next_id, ops>>

\* the invocation returns: lines 493-536, reading self.sub_agents
Classify(r, out, intermediate_steps) ==
  /\ rq[r].pc = "invoked"
  /\ intermediate_steps \in StepSeqs(rq[r].seen_exec.names)
  /\ \E tools_used \in ListOf(ToolsOf(intermediate_steps)) :
     \E agents_used \in ListOf(AgentsOf(intermediate_steps, master.sub_agents.names)) :
       rq' = [rq EXCEPT ![r].pc = "done", ![r].path = "single",
                        ![r].seen_classify = IF ToolsOf(intermediate_steps) # {}
                                               THEN master.sub_agents ELSE NoList,
                        ![r].result = <<SingleResult(OutputOf(out), intermediate_steps,
                                                     agents_used, tools_used)>>]
  /\ UNCHANGED <<tk, sn, file, tools_file, dtm, am_sub_agents, master, booted, observer, pending, now,
                 last_modified, rl, next_id, ops>>

\* the result has been handed to the caller
Return(r) ==
  /\ rq[r].pc = "done"
  /\ rq' = [rq EXCEPT ![r] = IdleRequest]
  /\ UNCHANGED <<tk, sn, file, tools_file, dtm, am_sub_agents, master, booted, observer, pending, now,
                 last_modified, rl, next_id, ops>>

(***************************************************************************)
(* User texts: up to MaxWords words of the vocabulary, joined by spaces.   *)
(***************************************************************************)
MaxWords == 3

W_compare == <<"c","o","m","p","a","r","e">>
W_better  == <<"B","E","T","T","E","R">>
W_sosanh  == <<"S","o"," ","s","U+00E1","n","h">>
W_fnb     == <<"F","&","B">>
W_hotel   == <<"H","o","t","e","l">>
W_hi      == <<"h","i">>
Vocabulary == {W_compare, W_better, W_sosanh, W_fnb, W_hotel, W_hi}

\* the texts of the routing runs: a phrase with two, one and no category, two
\* categories without a phrase, and a plain text
T_compare == Join(<<W_compare, W_fnb, W_hotel>>)
T_sosanh  == Join(<<W_sosanh, W_hotel, W_fnb>>)
T_one     == Join(<<W_better, W_fnb>>)
T_nocmp   == Join(<<W_fnb, W_hotel>>)
RouteTexts == {T_compare, T_sosanh, T_one, T_nocmp, W_better, W_hi}

\* the texts of the concurrent runs: a comparison request and a plain one
SysTexts == {T_compare, W_hi}

Outcomes  == {"answer", "empty", "raise"}
Syntheses == {"content", "empty", "raise"}
Outputs   == {"text", "empty", "missing"}

\* the steps of a request whose collaborators behave as the three sets allow
RequestStep(r, outcomes, syntheses, outputs) ==
  \/ Analyze(r)
  \/ \E outcome \in outcomes : _call_multiple_agents(r, outcome)
  \/ \E synthesis \in syntheses : Summarize(r, synthesis)
  \/ Dispatch(r)
  \/ DispatchRaises(r)
  \/ \E out \in outputs : \E steps \in StepSeqs(rq[r].seen_exec.names) : Classify(r, out, steps)
  \/ Return(r)

ReloadStep(t) ==
  \/ ReloadManifest(t)
  \/ \E llm_ok \in BOOLEAN : load_agents_from_config(t, llm_ok)
  \/ \E llm_ok \in BOOLEAN : PublishSubAgents(t, llm_ok)
  \/ \E llm_ok \in BOOLEAN : PublishExecutor(t, llm_ok)

\* startup, the environment and the three reload triggers
SystemStep ==
  \/ \E llm_ok \in BOOLEAN : initialize_system(llm_ok)
  \/ \E f \in FileValues : EditFile(f)
  \/ \E tf \in ToolsFiles : EditTools(tf)
  \/ Tick
  \/ _handle_config_change
  \/ WatcherCheck
  \/ reload_agents_endpoint
  \/ \E d \in AgentLists : sync_agents(d)
  \/ SyncRename
  \/ \E t \in Reloaders : ReloadStep(t)

Next ==
  \/ SystemStep
  \/ \E r \in Requests : \E text \in SysTexts : Receive(r, text, FALSE)
  \/ \E r \in Requests : RequestStep(r, {"answer", "raise"}, {"content", "raise"}, {"text", "empty"})

Spec == Init /\ [][Next]_vars

\* the first request slot
Caller == CHOOSE r \in Requests : \A q \in Requests : r <= q

\* reloads next to one plain request that the executor answers directly
NextReload ==
  \/ SystemStep
  \/ Receive(Caller, W_hi, FALSE)
  \/ Analyze(Caller)
  \/ Dispatch(Caller)
  \/ DispatchRaises(Caller)
  \/ Classify(Caller, "text", <<>>)
  \/ Return(Caller)

SpecReload == Init /\ [][NextReload]_vars

(***************************************************************************)
(* Routing alone: a MasterAgent built over any agent list, serving         *)
(* requests with no reload running.                                        *)
(***************************************************************************)
MaxAgents == 2
NamePool == {N_fnb, N_book, N_both, N_hr}
AgentNameLists == UNION {[1..n -> NamePool] : n \in 1..MaxAgents}

InitRoute ==
  /\ file = BadFile("missing")
  /\ tools_file = ToolsFull
  /\ dtm = ToolsFull.ids
  /\ \E names \in AgentNameLists :
       /\ am_sub_agents = Sanitized([id |-> 1, names |-> names])
       /\ master = MasterAgent([id |-> 1, names |-> names])
  /\ booted = TRUE
  /\ observer = FALSE
  /\ pending = 0
  /\ now = StartTime
  /\ last_modified = 0
  /\ rl = [t \in Reloaders |-> IdleReloader]
  /\ rq = [r \in Requests |-> IdleRequest]
  /\ next_id = 2
  /\ ops = 0
  /\ tk = NoTool
  /\ sn = NoName

NextRoute ==
  \/ \E text \in RouteTexts : \E history \in BOOLEAN : Receive(Caller, text, history)
  \/ RequestStep(Caller, Outcomes, Syntheses, Outputs)

SpecRoute == InitRoute /\ [][NextRoute]_vars

(***************************************************************************)
(* Detection alone: a text is typed word by word and analysed.             *)
(***************************************************************************)
\* the user types one more word
TypeWord(r, w) ==
  /\ rq[r].pc = "idle"
  /\ ops < MaxWords
  /\ rq' = [rq EXCEPT ![r].user_input = IF ops = 0 THEN w ELSE @ \o <<" ">> \o w]
  /\ ops' = ops + 1
  /\ UNCHANGED <<tk, sn, file, tools_file, dtm, am_sub_agents, master, booted, observer,
                 pending, now, last_modified, rl, next_id>>

\* the text is sent
Submit(r) ==
  /\ rq[r].pc = "idle"
  /\ rq' = [rq EXCEPT ![r].pc = "analyze"]
  /\ UNCHANGED <<tk, sn, file, tools_file, dtm, am_sub_agents, master, booted, observer,
                 pending, now, last_modified, rl, next_id, ops>>

NextDetect ==
  \/ \E w \in Vocabulary : TypeWord(Caller, w)
  \/ Submit(Caller)
  \/ Analyze(Caller)

InitDetect ==
  /\ file = ListFile(CfgPair)
  /\ tools_file = ToolsFull
  /\ dtm = ToolsFull.ids
  /\ am_sub_agents = Sanitized([id |-> 1, names |-> <<N_fnb, N_book>>])
  /\ master = MasterAgent([id |-> 1, names |-> <<N_fnb, N_book>>])
  /\ booted = TRUE
  /\ observer = TRUE
  /\ pending = 0
  /\ now = StartTime
  /\ last_modified = 0
  /\ rl = [t \in Reloaders |-> IdleReloader]
  /\ rq = [r \in Requests |-> IdleRequest]
  /\ next_id = 2
  /\ ops = 0
  /\ tk = NoTool
  /\ sn = NoName

SpecDetect == InitDetect /\ [][NextDetect]_vars

(***************************************************************************)
(* AgentSystemManager.process_user_request_with_details (api_server.py     *)
(* 309-377), the detailed dispatch API behind POST /api/chat.              *)
(***************************************************************************)
\* AgentManager never assigns sub_agents_config: reading it raises AttributeError
Missing == "AttributeError"

ApiConfig(name, tool_ids, is_public, created_by_id) ==
  [agent_name |-> name, tools |-> tool_ids, is_public |-> is_public,
   created_by_id |-> created_by_id]
\* what self.agent_manager.sub_agents_config yields: nothing (the class of
\* core/agent_manager.py), or a list put there from outside the class
ConfigAttrs ==
  {Missing, <<>>,
   <<ApiConfig(N_fnb, <<"google_search_tool">>, TRUE, None),
     ApiConfig(N_book, <<"jira_tool">>, FALSE, "u1")>>,
   <<ApiConfig(N_hr, <<"unknown_tool">>, TRUE, "u1")>>}
UserIds == {None, "anonymous", "u1"}

\* lines 318-327: the configurations the user may use
Permitted(configs, user_id) ==
  SelectSeq(configs,
            LAMBDA config :
              IF user_id # None
                THEN config.is_public
                     \/ (config.created_by_id # None /\ config.created_by_id = user_id)
                ELSE config.is_public)

\* the keys of a dict returned by MasterAgent.process_request_with_details
MasterKeys(result) ==
  {"response", "agents_used", "tools_used", "execution_steps", "total_steps",
   "comparison_mode"} \cup (IF result.has_error THEN {"error"} ELSE {})

\* a dict the API returns: its keys, its response and its error entry
ApiDict(keys, response, error) == [keys |-> keys, response |-> response, error |-> error]

\* lines 312-315, 330-333, 345-348: the early returns
NotInitializedDict ==
  ApiDict({"response", "error"},
          <<"System not initialized properly, no agent configurations loaded.">>,
          <<"System not initialized">>)
NoPermissionDict ==
  ApiDict({"response", "error"},
          <<"You do not have permission to use any agents, or no agents are available, if no have agent, please direct to agent management page to create new agent">>,
          <<"No permitted agents found for this user.">>)
NoAgentCreatedDict ==
  ApiDict({"response", "error"},
          <<"Could not create any permitted agents.">>,
          <<"Agent creation failed.">>)
\* lines 366-377: the except branch
ApiErrorDict(e) ==
  ApiDict({"response", "agents_used", "tools_used", "execution_steps", "total_steps",
           "available_agents", "available_tools", "error"},
          <<"Error processing request: ">> \o e, e)
\* lines 359-365: the master's dict with the two lists added
ApiFromMaster(result) ==
  ApiDict(MasterKeys(result) \cup {"available_agents", "available_tools"},
          result.response, result.error)

\* what the temporary master returns for the request: the three kinds of
\* result of process_request_with_details
TempMasterResult(names, kind, history) ==
  CASE kind = "error" -> ErrorResult(ErrorText(1))
    [] kind = "comparison" /\ Len(names) >= 2 ->
         ComparisonResult(names, <<<<names[1], AnswerText(1)>>, <<names[2], AnswerText(2)>>>>,
                          SummaryText, history)
    [] OTHER -> SingleResult(OutputOf("text"), <<>>, <<>>, <<>>)
ResultKinds == {"error", "comparison", "single"}

\* the whole call: raises at line 311, or returns one of the dicts
\* chat_endpoint line 561 calls it once the system has a master
ApiDetailed(r, user_input, history, user_id, attr, llm_ok, kind) ==
  /\ booted /\ master.present /\ ops < MaxOps
  /\ rq[r].pc = "idle"
  /\ ops' = ops + 1
  /\ LET permitted_configs == Permitted(attr, user_id)
         permitted_agents == AssembleAll(permitted_configs, dtm, llm_ok)
         received == [IdleRequest EXCEPT !.user_input = user_input, !.history = history]
     IN  IF attr = Missing
           THEN rq' = [rq EXCEPT ![r] = [received EXCEPT !.pc = "raised", !.path = "api"]]
           ELSE rq' = [rq EXCEPT ![r] =
                  [received EXCEPT
                     !.pc = "done", !.path = "api",
                     !.result =
                       IF Len(attr) = 0 THEN <<NotInitializedDict>>
                       ELSE IF Len(permitted_configs) = 0 THEN <<NoPermissionDict>>
                       ELSE IF Len(permitted_agents) = 0 THEN <<NoAgentCreatedDict>>
                       ELSE IF ~llm_ok THEN <<ApiErrorDict(ErrorText(1))>>
                       ELSE <<ApiFromMaster(TempMasterResult(
                                _sanitize_sub_agent_tools(permitted_agents), kind, history))>>]]
  /\ UNCHANGED <<tk, sn, file, tools_file, dtm, am_sub_agents, master, booted, observer, pending, now,
                 last_modified, rl, next_id>>

NextApi ==
  \/ SystemStep
  \/ \E r \in Requests : \E text \in SysTexts : \E history \in BOOLEAN :
     \E user_id \in UserIds : \E attr \in ConfigAttrs : \E llm_ok \in BOOLEAN :
     \E kind \in ResultKinds :
       ApiDetailed(r, text, history, user_id, attr, llm_ok, kind)
  \/ \E r \in Requests : Return(r)

SpecApi == Init /\ [][NextApi]_vars

(***************************************************************************)
(* The sanitizer alone: MasterAgent._sanitize_sub_agent_tools renames one  *)
(* agent tool.                                                             *)
(***************************************************************************)
MaxShort == 2   \* length of the names spelled out character by character

NameAlphabet == {"a", "Z", "9", ".", "-", "_", " ", "U+00E1"}
ShortNames == UNION {[1..n -> NameAlphabet] : n \in 0..MaxShort}
Filler(n) == [i \in 1..n |-> "x"]
\* names around the length limit: a short head and 63, 64 or 65 more characters
LongNames ==
  {head \o Filler(n) : head \in {s \in ShortNames : Len(s) <= 1},
                       n \in {MaxNameLen - 1, MaxNameLen, MaxNameLen + 1}}

\* an agent tool arrives with its name
GiveName(original_name) ==
  /\ sn.phase = "none"
  /\ sn' = [phase |-> "given", original_name |-> original_name, name |-> original_name]
  /\ UNCHANGED <<tk, file, tools_file, dtm, am_sub_agents, master, booted, observer, pending,
                 now, last_modified, rl, rq, next_id, ops>>

\* lines 39-58: agent_tool.name = sanitized_name
Sanitize ==
  /\ sn.phase = "given"
  /\ sn' = [sn EXCEPT !.phase = "sanitized", !.name = SanitizeName(sn.original_name)]
  /\ UNCHANGED <<tk, file, tools_file, dtm, am_sub_agents, master, booted, observer, pending,
                 now, last_modified, rl, rq, next_id, ops>>

\* a published agent tool is handed to a MasterAgent once more (the temporary
\* master of the detailed API, update_sub_agents): lines 39-58 run on its name again
Resanitize ==
  /\ sn.phase = "sanitized"
  /\ sn' = [phase |-> "resanitized", original_name |-> sn.original_name,
            published |-> sn.name, name |-> SanitizeName(sn.name)]
  /\ UNCHANGED <<tk, file, tools_file, dtm, am_sub_agents, master, booted, observer, pending,
                 now, last_modified, rl, rq, next_id, ops>>

NextSanitize ==
  \/ \E original_name \in ShortNames \cup LongNames : GiveName(original_name)
  \/ Sanitize
  \/ Resanitize

SpecSanitize == InitDetect /\ [][NextSanitize]_vars

(***************************************************************************)
(* DynamicToolManager (core/dynamic_tool_manager.py): a tool is built from *)
(* its definition in tools.json and the agent's tool_configs entry, and    *)
(* invoked. A dict is a function from its keys.                            *)
(***************************************************************************)
\* one entry of "parameters" in a tool definition
Param(is_credential, required, default) ==
  [is_credential |-> is_credential, required |-> required, default |-> default]
Query      == Param(FALSE, TRUE, None)
Optional   == Param(FALSE, FALSE, "default")
Credential == Param(TRUE, TRUE, None)

\* "file" names a toolkit module: one that defines a function called like the
\* tool, or one that does not; None when the entry has no "file"
WithFunc    == "module_with_function"
WithoutFunc == "module_without_function"
ToolDef(id, tool_file, parameters) ==
  [id |-> id, file |-> tool_file, parameters |-> parameters]

\* tools.json: the four tools the dispatch of _execute_tool_function names, two
\* tools served by the generic handler, and an entry without "file"
google_search_tool ==
  ToolDef("google_search_tool", WithoutFunc,
          [p \in {"query", "num_results", "google_api_key", "google_cse_id"} |->
             CASE p = "query" -> Query [] p = "num_results" -> Optional [] OTHER -> Credential])
gmail_tool ==
  ToolDef("gmail_tool", WithoutFunc,
          [p \in {"action", "gmail_credentials_path"} |->
             IF p = "action" THEN Query ELSE Credential])
jira_tool ==
  ToolDef("jira_tool", WithoutFunc,
          [p \in {"action", "jira_base_url", "jira_username", "jira_api_token"} |->
             IF p = "action" THEN Query ELSE Credential])
knowledge_search_tool ==
  ToolDef("knowledge_search_tool", WithoutFunc,
          [p \in {"query", "max_results"} |-> IF p = "query" THEN Query ELSE Optional])
check_weather ==
  ToolDef("check_weather", WithFunc,
          [p \in {"location", "api_key"} |-> IF p = "location" THEN Optional ELSE Credential])
gitlab_tool ==
  ToolDef("gitlab_tool", WithoutFunc,
          [p \in {"action", "gitlab_personal_access_token"} |->
             IF p = "action" THEN Query ELSE Credential])
broken_tool ==
  ToolDef("broken_tool", None, [p \in {"query"} |-> Query])
ToolManifest ==
  {google_search_tool, gmail_tool, jira_tool, knowledge_search_tool, check_weather,
   gitlab_tool, broken_tool}
ToolIds == {d.id : d \in ToolManifest} \cup {"unknown_tool"}

\* DynamicToolManager.get_tool_config: the entry or None
Found(tool_id) == \E d \in ToolManifest : d.id = tool_id
get_tool_config(tool_id) ==
  IF Found(tool_id) THEN CHOOSE d \in ToolManifest : d.id = tool_id ELSE None

\* dicts with one possible value per key
Dicts(keys, value) == UNION {[S -> {value}] : S \in SUBSET keys}

\* a schema with a field for every parameter
SchemaOfAllParameters(tool_parameters) ==
  [p \in DOMAIN tool_parameters |->
     [required |-> tool_parameters[p].required /\ tool_parameters[p].default = None,
      default  |-> tool_parameters[p].default]]

\* lines 91-123: the fields of the input schema
schema_fields(tool_parameters) ==
  [p \in {q \in DOMAIN tool_parameters : ~tool_parameters[q].is_credential} |->
     [required |-> tool_parameters[p].required /\ tool_parameters[p].default = None,
      default  |-> tool_parameters[p].default]]

\* DynamicToolManager._create_tool_instance: the DynamicTool object
_create_tool_instance(tool_name, tool_file, tool_parameters, agent_config) ==
  [name |-> tool_name,
   args_schema |-> schema_fields(tool_parameters),
   _agent_config |-> agent_config,
   _tool_file |-> tool_file,
   _tool_parameters |-> tool_parameters]

\* DynamicToolManager.create_dynamic_tool: the tool, or the exception raised
create_dynamic_tool(tool_id, agent_tool_config) ==
  LET tool_config == get_tool_config(tool_id)
  IN  IF ~Found(tool_id)
        THEN [raised |-> TRUE, e |-> "ValueError"]
      ELSE IF tool_config.file = None
        THEN [raised |-> TRUE, e |-> "KeyError"]
      ELSE [raised |-> FALSE,
            tool |-> _create_tool_instance(tool_id, tool_config.file, tool_config.parameters,
                                           agent_tool_config)]

\* {**a, **b}: the entries of b replace those of a
Merge(a, b) ==
  [k \in DOMAIN a \cup DOMAIN b |-> IF k \in DOMAIN b THEN b[k] ELSE a[k]]
\* params.get(key) is truthy
Given(params, key) == key \in DOMAIN params

\* what an execution gives back: a returned text, or a raised exception. A text
\* is an error message, a result, or simulated results; `reports` are the
\* parameters the message says are missing.
Obs(kind, reports, text) == [raised |-> FALSE, kind |-> kind, reports |-> reports, text |-> text]
Raise(e) == [raised |-> TRUE, e |-> e]
CallError == <<"connection refused">>

\* the environment of an invocation: whether the module can be imported, and
\* whether the underlying call raises
Envs == [import_ok : BOOLEAN, call_ok : BOOLEAN]

\* values of parameters: a text, the empty string, a blank string, and a value
\* that is not a string
Blank == " "
NonString == "int:7"
Truthy(value) == value # ""
IsStr(value) == value # NonString
Stripped(value) == IF value = Blank THEN "" ELSE value

\* line 208
possible_query_keys == <<"query", "q", "search_query", "search_term", "text", "input">>

\* key.endswith("_key") or key.endswith("_id") or key.endswith("_token"), for
\* the keys of the model
EndsLikeCredential(key) == key \in {"google_api_key", "google_cse_id", "api_token"}

\* the order in which configurations and calls list their keys
KeyOrder ==
  <<"query", "q", "search_query", "search_term", "text", "input", "num_results", "note",
    "region", "api_token", "google_api_key", "google_cse_id">>

\* params.items(): the keys of the agent's config, then those only the call has
ItemsOrder(tool, params) ==
  SelectSeq(KeyOrder, LAMBDA k : k \in DOMAIN params /\ k \in DOMAIN tool._agent_config)
  \o SelectSeq(KeyOrder, LAMBDA k : k \in DOMAIN params /\ k \notin DOMAIN tool._agent_config)

NoQuery == [found |-> FALSE, key |-> "", value |-> ""]

\* a lookup that also accepts the values of credential-like keys
QueryFromAnyKey(tool, params) ==
  LET items == ItemsOrder(tool, params)
      cands == {i \in 1..Len(items) : IsStr(params[items[i]]) /\ Stripped(params[items[i]]) # ""}
  IN  IF cands = {} THEN NoQuery
      ELSE LET i == CHOOSE c \in cands : \A d \in cands : c <= d
           IN  [found |-> TRUE, key |-> items[i], value |-> params[items[i]]]

\* lines 206-219: the first alias with a truthy value, else the first plausible
\* string value of params.items()
FindQuery(tool, params) ==
  LET hits == {i \in 1..Len(possible_query_keys) :
                 /\ possible_query_keys[i] \in DOMAIN params
                 /\ Truthy(params[possible_query_keys[i]])}
      items == ItemsOrder(tool, params)
      cands == {i \in 1..Len(items) :
                  /\ IsStr(params[items[i]])
                  /\ Stripped(params[items[i]]) # ""
                  /\ ~EndsLikeCredential(items[i])}
  IN  IF hits # {}
        THEN LET i == CHOOSE h \in hits : \A g \in hits : h <= g
             IN  [found |-> TRUE, key |-> possible_query_keys[i],
                  value |-> params[possible_query_keys[i]]]
      ELSE IF cands # {}
        THEN LET i == CHOOSE c \in cands : \A d \in cands : c <= d
             IN  [found |-> TRUE, key |-> items[i], value |-> params[items[i]]]
      ELSE NoQuery

\* line 222: the final validation
ValidQuery(q) == q.found /\ IsStr(q.value) /\ Stripped(q.value) # ""

\* lines 174-234
_execute_google_search(tool, params, env) ==
  IF ~ValidQuery(FindQuery(tool, params))
    THEN Obs("error", {}, <<"Loi: Khong tim thay query de tim kiem.">>)
  ELSE IF ~(Given(params, "google_api_key") /\ Truthy(params["google_api_key"]))
          \/ ~(Given(params, "google_cse_id") /\ Truthy(params["google_cse_id"]))
    THEN Obs("mock", {"google_api_key", "google_cse_id"},
             <<"Ket qua tim kiem mo phong (API chua duoc cau hinh)">>)
  ELSE IF ~env.call_ok
    THEN Obs("error", {}, <<"Loi khi tim kiem Google: ">> \o CallError)
  ELSE Obs("result", {}, <<"Ket qua tim kiem Google">>)

\* lines 236-256
_execute_gmail_tool(params, env) ==
  IF ~Given(params, "gmail_credentials_path")
    THEN Obs("error", {"gmail_credentials_path"}, <<"Gmail credentials path not provided">>)
  ELSE IF ~env.call_ok
    THEN Obs("error", {}, <<"Error executing Gmail tool: ">> \o CallError)
  ELSE Obs("result", {}, <<"gmail result">>)

\* lines 258-284
_execute_jira_tool(params, env) ==
  IF ~(Given(params, "jira_base_url") /\ Given(params, "jira_username")
       /\ Given(params, "jira_api_token"))
    THEN Obs("error", {"jira_base_url", "jira_username", "jira_api_token"},
             <<"JIRA configuration not complete (missing URL, username, or token)">>)
  ELSE IF ~env.call_ok
    THEN Obs("error", {}, <<"Error executing JIRA tool: ">> \o CallError)
  ELSE Obs("result", {}, <<"jira result">>)

\* lines 286-324
_execute_knowledge_search_tool(params, env) ==
  IF ~Given(params, "query")
    THEN Obs("error", {}, <<"Loi: Khong tim thay query de tim kiem.">>)
  ELSE IF ~env.call_ok
    THEN Obs("error", {}, <<"Error executing knowledge search tool: ">> \o CallError)
  ELSE Obs("result", {}, <<"knowledge result">>)

\* lines 332-334: the parameters kept for the call of the module's function
filtered_params(tool, params) ==
  LET kept == {k \in DOMAIN params :
                 ~(k \in DOMAIN tool._tool_parameters /\ tool._tool_parameters[k].is_credential)}
  IN  [k \in kept |-> params[k]]

\* lines 159-169 and 330: the generic handler is reached and finds the function
CallsFunction(tool, env) ==
  /\ env.import_ok
  /\ tool.name \notin {"google_search_tool", "gmail_tool", "jira_tool", "knowledge_search_tool"}
  /\ tool._tool_file = WithFunc

\* lines 326-337: the module's function is called without the credentials
_execute_generic_tool(tool, params, env) ==
  IF tool._tool_file = WithFunc
    THEN IF env.call_ok THEN Obs("result", {}, <<"generic result">>) ELSE Raise(CallError)
    ELSE Obs("error", {}, <<"Tool function ">> \o <<tool.name>> \o <<" not found in module">>)

\* lines 151-172
_execute_tool_function(tool, params, env) ==
  LET returned ==
        IF ~env.import_ok THEN Raise(<<"No module named toolkit">>)
        ELSE CASE tool.name = "google_search_tool" -> _execute_google_search(tool, params, env)
               [] tool.name = "gmail_tool" -> _execute_gmail_tool(params, env)
               [] tool.name = "jira_tool" -> _execute_jira_tool(params, env)
               [] tool.name = "knowledge_search_tool" ->
                    _execute_knowledge_search_tool(params, env)
               [] OTHER -> _execute_generic_tool(tool, params, env)
  IN  IF returned.raised
        THEN Raise(<<"Failed to execute tool ">> \o <<tool.name>> \o <<": ">> \o returned.e)
        ELSE returned

\* line 143
merged_params(tool, kwargs) == Merge(tool._agent_config, kwargs)

\* an execution without the except clause
RunWithoutCatch(tool, kwargs, env) ==
  _execute_tool_function(tool, merged_params(tool, kwargs), env)

\* DynamicTool._run, lines 139-149
_run(tool, kwargs, env) ==
  LET returned == _execute_tool_function(tool, merged_params(tool, kwargs), env)
  IN  IF returned.raised
        THEN Obs("error", {}, <<"Error executing ">> \o <<tool.name>> \o <<": ">> \o returned.e)
        ELSE returned

\* create_tools_for_agent hands tool_configs.get(tool_id, {}) to the build
Build(tool_id, agent_tool_config) ==
  /\ tk.phase = "none"
  /\ LET built == create_dynamic_tool(tool_id, agent_tool_config)
     IN  tk' = IF built.raised
                 THEN [phase |-> "failed", tool_id |-> tool_id,
                       agent_tool_config |-> agent_tool_config, e |-> built.e]
                 ELSE [phase |-> "built", tool_id |-> tool_id,
                       agent_tool_config |-> agent_tool_config, tool |-> built.tool]
  /\ UNCHANGED <<sn, file, tools_file, dtm, am_sub_agents, master, booted, observer, pending,
                 now, last_modified, rl, rq, next_id, ops>>

\* the owning agent calls the tool with arguments that fit its schema
Invoke(kwargs, env) ==
  /\ tk.phase = "built"
  /\ kwargs \in Dicts(DOMAIN tk.tool.args_schema, "arg")
  /\ tk' = [phase |-> "invoked", tool_id |-> tk.tool_id,
            agent_tool_config |-> tk.agent_tool_config, tool |-> tk.tool,
            kwargs |-> kwargs, env |-> env,
            params |-> merged_params(tk.tool, kwargs),
            called |-> CallsFunction(tk.tool, env),
            forwarded |-> filtered_params(tk.tool, merged_params(tk.tool, kwargs)),
            returned |-> _run(tk.tool, kwargs, env)]
  /\ UNCHANGED <<sn, file, tools_file, dtm, am_sub_agents, master, booted, observer, pending,
                 now, last_modified, rl, rq, next_id, ops>>

\* a key of tool_configs that the tool definition does not declare
UndeclaredKey == "region"

ParamNames(tool_id) ==
  IF Found(tool_id) THEN DOMAIN get_tool_config(tool_id).parameters ELSE {}

NextTools ==
  \/ \E tool_id \in ToolIds : \E agent_tool_config \in Dicts(ParamNames(tool_id) \cup {UndeclaredKey}, "cfg") :
       Build(tool_id, agent_tool_config)
  \/ /\ tk.phase = "built"
     /\ \E env \in Envs : \E kwargs \in Dicts(DOMAIN tk.tool.args_schema, "arg") :
          Invoke(kwargs, env)

SpecTools == InitDetect /\ [][NextTools]_vars

(***************************************************************************)
(* The web-search tool: where its query comes from                         *)
(***************************************************************************)
ConfigKeys == {"note", "region", "api_token", "google_api_key", "google_cse_id"}
CallKeys == {"query", "q", "text"}
CallValues == {"", Blank, "pho", NonString}

\* an agent's google_search_tool is called: DynamicTool._run
Search(agent_tool_config, kwargs, env) ==
  /\ tk.phase = "none"
  /\ LET tool == create_dynamic_tool("google_search_tool", agent_tool_config).tool
     IN  tk' = [phase |-> "searched", tool |-> tool, kwargs |-> kwargs, env |-> env,
                params |-> merged_params(tool, kwargs),
                query |-> FindQuery(tool, merged_params(tool, kwargs)),
                returned |-> _run(tool, kwargs, env)]
  /\ UNCHANGED <<sn, file, tools_file, dtm, am_sub_agents, master, booted, observer, pending,
                 now, last_modified, rl, rq, next_id, ops>>

NextSearch ==
  \E agent_tool_config \in Dicts(ConfigKeys, "cfg") :
  \E keys \in SUBSET CallKeys : \E kwargs \in [keys -> CallValues] :
  \E env \in {e \in Envs : e.import_ok} :
    Search(agent_tool_config, kwargs, env)

SpecSearch == InitDetect /\ [][NextSearch]_vars

(***************************************************************************)
(* ConfiguredGoogleSearchTool._run: the process environment is overridden  *)
(* for the duration of a search. Two invocations run in two threads, one   *)
(* step per statement that reads or writes os.environ.                     *)
(***************************************************************************)
Invocations == {1, 2}
EnvNames == {"GOOGLE_API_KEY", "GOOGLE_CSE_ID"}
Unset == "unset"
\* the credentials of the agent that owns invocation i
CredsOf(i) ==
  [v \in EnvNames |-> IF i = 1 THEN (IF v = "GOOGLE_API_KEY" THEN "key_a" ELSE "cse_a")
                               ELSE (IF v = "GOOGLE_API_KEY" THEN "key_b" ELSE "cse_b")]
\* os.environ before any invocation: nothing set, or the deployment's own values
Environs == {[v \in EnvNames |-> Unset],
             [v \in EnvNames |-> IF v = "GOOGLE_API_KEY" THEN "key_0" ELSE "cse_0"]}
IdleInvocation == [pc |-> "save_key", old |-> [v \in EnvNames |-> Unset],
                   used |-> [v \in EnvNames |-> Unset]]

\* two agents call their google_search_tool
StartSearches(environ) ==
  /\ tk.phase = "none"
  /\ tk' = [phase |-> "env", initial |-> environ, environ |-> environ,
            inv |-> [i \in Invocations |-> IdleInvocation]]
  /\ UNCHANGED <<sn, file, tools_file, dtm, am_sub_agents, master, booted, observer, pending,
                 now, last_modified, rl, rq, next_id, ops>>

\* the next statements of invocation i: pc, variable, position after it
EnvStep(i, pc, next, v, environ, old, used) ==
  /\ tk.phase = "env"
  /\ tk.inv[i].pc = pc
  /\ tk' = [tk EXCEPT !.environ = environ,
                      !.inv[i] = [pc |-> next, old |-> old, used |-> used]]
  /\ UNCHANGED <<sn, file, tools_file, dtm, am_sub_agents, master, booted, observer, pending,
                 now, last_modified, rl, rq, next_id, ops>>

\* lines 188-189: old_api_key = os.environ.get(...), old_cse_id = ...
SaveOld(i, pc, next, v) ==
  /\ tk.phase = "env"
  /\ EnvStep(i, pc, next, v, tk.environ, [tk.inv[i].old EXCEPT ![v] = tk.environ[v]],
             tk.inv[i].used)

\* lines 192-193: os.environ[...] = api_key, cse_id
SetEnv(i, pc, next, v) ==
  /\ tk.phase = "env"
  /\ EnvStep(i, pc, next, v, [tk.environ EXCEPT ![v] = CredsOf(i)[v]], tk.inv[i].old,
             tk.inv[i].used)

\* GoogleSearchTool._run lines 76-77 and the API wrapper: os.getenv(...)
ReadEnv(i, pc, next, v) ==
  /\ tk.phase = "env"
  /\ EnvStep(i, pc, next, v, tk.environ, tk.inv[i].old,
             [tk.inv[i].used EXCEPT ![v] = tk.environ[v]])

\* lines 196-205: the finally block restores or deletes the variable
RestoreEnv(i, pc, next, v) ==
  /\ tk.phase = "env"
  /\ EnvStep(i, pc, next, v,
             [tk.environ EXCEPT ![v] = IF tk.inv[i].old[v] # Unset THEN tk.inv[i].old[v] ELSE Unset],
             tk.inv[i].old, tk.inv[i].used)

NextEnv ==
  \/ \E environ \in Environs : StartSearches(environ)
  \/ \E i \in Invocations :
       \/ SaveOld(i, "save_key", "save_cse", "GOOGLE_API_KEY")
       \/ SaveOld(i, "save_cse", "set_key", "GOOGLE_CSE_ID")
       \/ SetEnv(i, "set_key", "set_cse", "GOOGLE_API_KEY")
       \/ SetEnv(i, "set_cse", "read_key", "GOOGLE_CSE_ID")
       \/ ReadEnv(i, "read_key", "read_cse", "GOOGLE_API_KEY")
       \/ ReadEnv(i, "read_cse", "restore_key", "GOOGLE_CSE_ID")
       \/ RestoreEnv(i, "restore_key", "restore_cse", "GOOGLE_API_KEY")
       \/ RestoreEnv(i, "restore_cse", "returned", "GOOGLE_CSE_ID")

SpecEnv == InitDetect /\ [][NextEnv]_vars

(***************************************************************************)
(* Assembling a sub-agent: AgentManager.create_sub_agent                   *)
(***************************************************************************)

MaxTools == 2

\* AgentManager.__init__: the legacy registry, never filled afterwards
available_tools == [tool_id \in {} |-> NoTool]

\* config.get("tool_configs", {}).get(tool_id, {})
ToolConfigOf(tool_configs, tool_id) ==
  IF tool_id \in DOMAIN tool_configs THEN tool_configs[tool_id] ELSE <<>>

\* a variant of the tool loop in which an id that cannot be built is fatal
ToolsOrNothing(tool_ids, tool_configs) ==
  IF \E i \in 1..Len(tool_ids) :
       create_dynamic_tool(tool_ids[i], ToolConfigOf(tool_configs, tool_ids[i])).raised
    THEN <<>>
    ELSE [i \in 1..Len(tool_ids) |->
            create_dynamic_tool(tool_ids[i], ToolConfigOf(tool_configs, tool_ids[i])).tool]

RECURSIVE DynamicTools(_, _)
\* DynamicToolManager.create_tools_for_agent: one tool per id of the list, in
\* order; an unknown id is skipped with a warning, a failed build is caught and
\* reported
DynamicTools(tool_ids, tool_configs) ==
  IF Len(tool_ids) = 0 THEN <<>>
  ELSE LET tool_id == tool_ids[1]
           built   == create_dynamic_tool(tool_id, ToolConfigOf(tool_configs, tool_id))
       IN  (IF ~Found(tool_id) THEN <<>>
            ELSE IF built.raised THEN <<>>
            ELSE <<built.tool>>)
           \o DynamicTools(Tail(tool_ids), tool_configs)

\* [tool.name for tool in agent_tools]
ToolNames(agent_tools) == {agent_tools[i].name : i \in 1..Len(agent_tools)}

RECURSIVE LegacyTools(_, _)
\* the legacy fallback of create_sub_agent: a registered legacy tool is added
\* unless a tool of that name is already there
LegacyTools(agent_tools, tool_names) ==
  IF Len(tool_names) = 0 THEN agent_tools
  ELSE LET tool_id == tool_names[1]
           tool_name == tool_id
       IN  LegacyTools(IF tool_id \in DOMAIN available_tools /\ tool_name \notin ToolNames(agent_tools)
                         THEN Append(agent_tools, available_tools[tool_id])
                         ELSE agent_tools,
                       Tail(tool_names))

\* AgentManager.create_sub_agent: the agent wrapped as a tool, or the exception
create_sub_agent(config, llm_ok) ==
  LET agent_tools == LegacyTools(DynamicTools(config.tools, config.tool_configs), config.tools)
  IN  IF Len(agent_tools) = 0
        THEN [raised |-> TRUE, e |-> "ValueError"]
      ELSE IF ~llm_ok
        THEN [raised |-> TRUE, e |-> "RuntimeError"]
      ELSE [raised |-> FALSE, name |-> config.agent_name, tools |-> agent_tools]

\* agents.json entries: every list of at most MaxTools tool ids
RECURSIVE ToolLists(_)
ToolLists(n) ==
  IF n = 0 THEN {<<>>}
  ELSE ToolLists(n - 1) \cup {Append(l, t) : l \in {x \in ToolLists(n - 1) : Len(x) = n - 1},
                                             t \in ToolIds}

AgentConfigWith(tools) ==
  [agent_name |-> N_hr, description |-> "d", tools |-> tools, tool_configs |-> <<>>]

\* load_agents_from_config calls create_sub_agent for an entry of agents.json
CreateSubAgent(config, llm_ok) ==
  /\ tk.phase = "none"
  /\ tk' = [phase |-> "assembled", config |-> config, llm_ok |-> llm_ok,
            out |-> create_sub_agent(config, llm_ok)]
  /\ UNCHANGED <<sn, file, tools_file, dtm, am_sub_agents, master, booted, observer, pending,
                 now, last_modified, rl, rq, next_id, ops>>

NextAssemble ==
  \E tools \in ToolLists(MaxTools) : \E llm_ok \in BOOLEAN :
    CreateSubAgent(AgentConfigWith(tools), llm_ok)

SpecAssemble == InitDetect /\ [][NextAssemble]_vars

(***************************************************************************)
(* Names exposed to the decision service as callables                      *)
(***************************************************************************)
\* an agent tool is handed to create_tool_calling_agent by the MasterAgent, which
\* has renamed it in place
AgentCallableName(agent_name) == SanitizeName(agent_name)

\* create_dynamic_tool: tool_name = tool_id; create_sub_agent hands the tool to
\* create_tool_calling_agent as it is
ToolCallableName(tool_id) == tool_id

ExposeAgent(agent_name) ==
  /\ sn.phase = "none"
  /\ sn' = [phase |-> "exposed", kind |-> "agent", original_name |-> agent_name,
            name |-> AgentCallableName(agent_name)]
  /\ UNCHANGED <<tk, file, tools_file, dtm, am_sub_agents, master, booted, observer, pending,
                 now, last_modified, rl, rq, next_id, ops>>

ExposeTool(tool_id) ==
  /\ sn.phase = "none"
  /\ sn' = [phase |-> "exposed", kind |-> "tool", original_name |-> tool_id,
            name |-> ToolCallableName(tool_id)]
  /\ UNCHANGED <<tk, file, tools_file, dtm, am_sub_agents, master, booted, observer, pending,
                 now, last_modified, rl, rq, next_id, ops>>

\* agent names of agents.json and tool ids of tools.json are arbitrary strings;
\* a tool id is not empty
NextExpose ==
  \/ \E agent_name \in ShortNames \cup LongNames : ExposeAgent(agent_name)
  \/ \E tool_id \in {x \in ShortNames \cup LongNames : Len(x) > 0} : ExposeTool(tool_id)

SpecExpose == InitDetect /\ [][NextExpose]_vars

(***************************************************************************)
(* Properties                                                              *)
(***************************************************************************)
Result(r) == rq[r].result[1]
Finished(r) == rq[r].pc = "done"

\* the positions of AgentSystemManager.reload_agents
ReloadingPcs == {"manifest", "load", "publish", "executor"}

\* C1: the Router's agent set and its executor always belong to the same
\* snapshot, during and after update_sub_agents, also when building the new
\* executor fails: the executor routes to exactly the agents of the set
C1_RouterNeverPartial ==
  master.present => master.agent_executor.tools.names = master.sub_agents.names

\* thread t takes this step
Acts(t) == rl'[t] # rl[t]
\* the reload of t is before its publication, or has assembled no agent
NotPublishing(t) ==
  \/ rl[t].pc \notin {"publish", "executor"}
  \/ rl[t].pc = "publish" /\ Len(rl[t].new.names) = 0
FailKinds == {"missing", "badjson", "notlist", "zero"}
FailsNow(t) == rl[t].pc # "idle" /\ rl'[t].pc = "idle" /\ rl'[t].why \in FailKinds

C3_OneReloadAtATime ==
  Cardinality({t \in Reloaders : rl[t].pc \in ReloadingPcs}) <= 1

\* the agent sets a request has read
SeenBy(r) ==
  {s.names : s \in {rq[r].seen_find, rq[r].seen_exec, rq[r].seen_classify} \ {NoList}}

\* C4: a request completes against one snapshot: target resolution, the
\* executor it dispatches through and the classification of agents_used all
\* read the same published agent set
C4_RequestSingleSnapshot ==
  \A r \in Requests : Finished(r) => Cardinality(SeenBy(r)) <= 1

\* keyword k occurs in text t, ignoring case
OccursIn(k, t) ==
  \E i \in 1..Len(t) :
    /\ i + Len(k) - 1 <= Len(t)
    /\ \A j \in 1..Len(k) : LowerChar(t[i + j - 1]) = LowerChar(k[j])
PhraseIn(t) == \E n \in 1..Len(comparison_keywords) : OccursIn(comparison_keywords[n], t)
CategoriesIn(t) ==
  {c \in {fnb, booking} :
     \E n \in 1..Len(model_keywords(c)) : OccursIn(model_keywords(c)[n], t)}
Analyzed(r) == rq[r].pc \notin {"idle", "analyze"}

\* C5: is_comparison is true exactly when a comparison phrase occurs in the
\* text (case-insensitive substring) and at least two categories have an alias
\* in it; the detected models are exactly those categories
C5_DetectionIff ==
  \A r \in Requests : Analyzed(r) =>
    /\ rq[r].analysis.is_comparison <=>
         (PhraseIn(rq[r].user_input) /\ Cardinality(CategoriesIn(rq[r].user_input)) >= 2)
    /\ Range(rq[r].analysis.models) = CategoriesIn(rq[r].user_input)
    /\ Len(rq[r].analysis.models) = Cardinality(CategoriesIn(rq[r].user_input))

\* a text in mixed case with a Vietnamese phrase and both categories is detected
C5_Witness ==
  \E r \in Requests :
    /\ Analyzed(r) /\ rq[r].user_input = T_sosanh
    /\ rq[r].analysis.is_comparison /\ Len(rq[r].analysis.models) = 2

\* C6: the result is in comparison mode exactly when detection is positive and
\* at least two targets resolve; otherwise (fewer than two targets, or no
\* comparison phrase whatever the categories) the request goes through the
\* single-agent dispatch and the result has comparison_mode false, with an
\* error only when the decision service itself raised
C6_ModeGating ==
  \A r \in Requests : Finished(r) =>
    /\ Result(r).comparison_mode <=>
         (rq[r].analysis.is_comparison /\ Len(rq[r].matching_agents) >= 2)
    /\ ~PhraseIn(rq[r].user_input) => ~Result(r).comparison_mode
    /\ ~Result(r).comparison_mode =>
         /\ rq[r].seen_exec # NoList
         /\ rq[r].path \in {"single", "error"}
         /\ Result(r).has_error <=> rq[r].path = "error"

\* detection is positive, one target resolves, and the request was answered by
\* the single-agent dispatch
C6_Witness ==
  \E r \in Requests :
    /\ Finished(r) /\ rq[r].analysis.is_comparison
    /\ Len(rq[r].matching_agents) = 1
    /\ rq[r].path = "single" /\ ~Result(r).comparison_mode /\ ~Result(r).has_error

\* C7: a result in comparison mode comes from a fan-out to at least two
\* pairwise distinct agents
C7_TargetsDistinct ==
  \A r \in Requests : (Finished(r) /\ Result(r).comparison_mode) =>
    /\ Cardinality(Range(rq[r].matching_agents)) = Len(rq[r].matching_agents)
    /\ Cardinality(Range(rq[r].matching_agents)) >= 2

\* the invocations of agent `name` by request r
CallsOf(r, name) == {i \in 1..Len(rq[r].invoked) : rq[r].invoked[i].name = name}

\* C8: when the synthesis starts every target has been invoked exactly once and
\* has an entry, and a target whose invocation raised has its failure string
C8_FanOutOncePerTarget ==
  \A r \in Requests : rq[r].pc = "synth" =>
    \A name \in Range(rq[r].matching_agents) :
      /\ Cardinality(CallsOf(r, name)) = 1
      /\ DictHas(rq[r].agent_responses, name)
      /\ \A i \in CallsOf(r, name) :
           rq[r].invoked[i].outcome = "raise" =>
             DictGet(rq[r].agent_responses, name, <<>>) = FailureText(name, ErrorText(i))

\* the layout the fallback must have: the entries of `d` in order, each under
\* a header, then the closer
RECURSIVE Sections(_)
Sections(d) ==
  IF d = <<>> THEN <<>>
  ELSE Sections(SubSeq(d, 1, Len(d) - 1))
       \o <<"## Mo hinh ">> \o ModelTypeLabel(d[Len(d)][1]) \o <<":\n">>
       \o d[Len(d)][2] \o <<"\n\n">>
EndsWith(s, suffix) ==
  Len(s) >= Len(suffix) /\ SubSeq(s, Len(s) - Len(suffix) + 1, Len(s)) = suffix

\* C9: when the synthesis raises, the response holds every collected answer or
\* failure string under a header, in collection order, and ends with the
\* closer; it is not empty and the request does not fail
C9_SynthesisFallback ==
  \A r \in Requests : (Finished(r) /\ rq[r].path = "fallback") =>
    /\ Len(Result(r).response) > 0
    /\ ~Result(r).has_error /\ Result(r).comparison_mode
    /\ EndsWith(Result(r).response, Sections(rq[r].agent_responses) \o FallbackCloser)
    /\ \A i \in 1..Len(rq[r].invoked) : DictHas(rq[r].agent_responses, rq[r].invoked[i].name)

\* the synthesis raised after one target answered and another failed
C9_Witness ==
  \E r \in Requests :
    /\ Finished(r) /\ rq[r].path = "fallback"
    /\ Len(rq[r].agent_responses) = 2
    /\ \E i, j \in 1..Len(rq[r].invoked) :
         rq[r].invoked[i].outcome = "raise" /\ rq[r].invoked[j].outcome = "answer"

\* C10: the response of every returned result is non-empty
C10_ResponseNonEmpty ==
  \A r \in Requests : Finished(r) => Len(Result(r).response) > 0

ResultKeys == {"response", "agents_used", "tools_used", "execution_steps", "total_steps",
               "comparison_mode"}

\* C11: every request to the detailed dispatch API ends with a result that has
\* the keys response, agents_used, tools_used, execution_steps, total_steps
\* and comparison_mode, on the early returns and on internal failures too
C11_DetailedResultComplete ==
  \A r \in Requests : (rq[r].path = "api" /\ rq[r].pc \in {"done", "raised"}) =>
    /\ rq[r].pc = "done"
    /\ ResultKeys \subseteq Result(r).keys

\* C12: the response of a result that reports a top-level failure does not
\* contain the raw error text, which is only in the error entry
C12_ErrorChannelsSeparate ==
  \A r \in Requests : (Finished(r) /\ rq[r].path = "error") =>
    /\ Result(r).error = ErrorText(1)
    /\ ~Contains(Result(r).response, Result(r).error)

\* C20: for every input string (empty, starting with a digit, dot or dash,
\* longer than 64 characters) the sanitized name has length 1..64, starts with
\* a letter or an underscore and has only characters of [A-Za-z0-9_.-]
C20_SanitizedNameWellFormed ==
  sn.phase = "sanitized" =>
    /\ Len(sn.name) >= 1 /\ Len(sn.name) <= 64
    /\ sn.name[1] \in AsciiLetters \cup {"_"}
    /\ \A i \in 1..Len(sn.name) : sn.name[i] \in AsciiLetters \cup Digits \cup {"_", ".", "-"}

\* a name of 66 characters that starts with a digit has been sanitized
C20_Witness ==
  /\ sn.phase = "sanitized"
  /\ Len(sn.original_name) > 64 /\ sn.original_name[1] = "9"
  /\ Len(sn.name) = 64 /\ sn.name[1] = "_"

\* the tool definition a built tool comes from
DefOf(tool_id) == CHOOSE d \in ToolManifest : d.id = tool_id
Built == tk.phase \in {"built", "invoked"}
Invoked == tk.phase = "invoked"

\* C13: every key of the agent's tool_configs entry has, in the merged
\* parameters handed to the handler, the value of the agent's config, whatever
\* the call arguments supply for it
C13_AgentConfigWins ==
  Invoked => \A k \in DOMAIN tk.tool._agent_config :
               tk.params[k] = tk.tool._agent_config[k]

\* C14: the schema of a built tool has exactly the parameters of its
\* definition that are not credentials
C14_SchemaHidesCredentials ==
  Built =>
    /\ DOMAIN tk.tool.args_schema =
         {p \in DOMAIN DefOf(tk.tool_id).parameters :
            ~DefOf(tk.tool_id).parameters[p].is_credential}
    /\ \A p \in DOMAIN tk.tool.args_schema : ~DefOf(tk.tool_id).parameters[p].is_credential

\* the search tool is built: two of its four parameters are credentials
C14_Witness ==
  /\ Built /\ tk.tool_id = "google_search_tool"
  /\ DOMAIN tk.tool.args_schema = {"query", "num_results"}
  /\ tk.agent_tool_config = [k \in {"google_api_key", "google_cse_id"} |-> "cfg"]

\* a required parameter that is no credential has no default and no value in
\* the agent's config
MissingRequired(tool_id, agent_tool_config) ==
  \E p \in DOMAIN DefOf(tool_id).parameters :
    /\ DefOf(tool_id).parameters[p].required
    /\ ~DefOf(tool_id).parameters[p].is_credential
    /\ DefOf(tool_id).parameters[p].default = None
    /\ p \notin DOMAIN agent_tool_config

\* C15: the build of a tool of the manifest fails when a required
\* non-credential parameter has neither a default nor a value in the agent's
\* config, and succeeds otherwise
C15_BuildChecksRequired ==
  (tk.phase \in {"built", "failed"} /\ Found(tk.tool_id) /\ DefOf(tk.tool_id).file # None) =>
    (tk.phase = "failed" <=> MissingRequired(tk.tool_id, tk.agent_tool_config))

\* C16: an invocation never raises; when the module cannot be imported the
\* returned text is the tool's error message, and a result is returned only
\* when neither the import nor the underlying call failed
C16_InvokeNeverRaises ==
  Invoked =>
    /\ ~tk.returned.raised
    /\ tk.returned.kind \in {"error", "result", "mock"}
    /\ ~tk.env.import_ok =>
         /\ tk.returned.kind = "error"
         /\ SubSeq(tk.returned.text, 1, 3) = <<"Error executing ", tk.tool.name, ": ">>
    /\ tk.returned.kind = "result" => (tk.env.import_ok /\ tk.env.call_ok)

\* the function of a generic tool raised, and the invocation returned the error text
C16_Witness ==
  /\ Invoked /\ tk.tool_id = "check_weather"
  /\ tk.env.import_ok /\ ~tk.env.call_ok
  /\ ~tk.returned.raised /\ tk.returned.kind = "error"
  /\ Contains(tk.returned.text, CallError)

\* the credentials the definition requires
RequiredCredentials(tool_id) ==
  {p \in DOMAIN DefOf(tool_id).parameters :
     DefOf(tool_id).parameters[p].is_credential /\ DefOf(tool_id).parameters[p].required}
\* the call supplies every required argument and nothing fails around it
PlainCall ==
  /\ tk.env.import_ok /\ tk.env.call_ok
  /\ \A p \in DOMAIN tk.tool.args_schema : tk.tool.args_schema[p].required => p \in DOMAIN tk.kwargs

\* C17: a tool whose agent config lacks a required credential is built, and a
\* call returns, without raising, an error text that reports the credential
C17_MissingCredentialReported ==
  (Invoked /\ PlainCall) =>
    \A c \in RequiredCredentials(tk.tool_id) :
      c \notin DOMAIN tk.agent_tool_config =>
        /\ ~tk.returned.raised
        /\ tk.returned.kind = "error"
        /\ c \in tk.returned.reports


Assembled == tk.phase = "assembled"

\* a tool id that resolves against the manifest and builds
Resolves(tool_id) == Found(tool_id) /\ DefOf(tool_id).file # None

Resolving(tool_ids) == SelectSeq(tool_ids, Resolves)

C19_NoDuplicateToolNames ==
  (Assembled /\ ~tk.out.raised) =>
    \A i, j \in 1..Len(tk.out.tools) :
      tk.out.tools[i].name = tk.out.tools[j].name => i = j

\* C21: the sanitizer is idempotent: sanitizing a sanitized name once more
\* returns it unchanged
C21_SanitizerIdempotent ==
  sn.phase = "resanitized" =>
    /\ sn.published = SanitizeName(sn.original_name)
    /\ sn.name = sn.published

\* a name that the first pass had to prefix and cut went through a second pass
C21_Witness ==
  /\ sn.phase = "resanitized"
  /\ sn.published # sn.original_name
  /\ Len(sn.original_name) > 64 /\ sn.original_name[1] \notin AsciiLetters \cup {"_"}
  /\ sn.name = sn.published

\* C22: every name exposed to the decision service as a callable, agent name or
\* tool name, satisfies the function-name grammar: 1 to 64 characters, a letter
\* or underscore first, then only letters, digits, underscore, dot and dash
C22_ExposedNamesWellFormed ==
  sn.phase = "exposed" =>
    /\ Len(sn.name) >= 1 /\ Len(sn.name) <= 64
    /\ sn.name[1] \in AsciiLetters \cup {"_"}
    /\ \A i \in 1..Len(sn.name) : sn.name[i] \in AsciiLetters \cup Digits \cup {"_", ".", "-"}

\* the agent set a request was routed with: the one its targets were resolved
\* in (comparison mode), the one of the executor it went through (single mode)
RoutedWith(r) ==
  IF Result(r).comparison_mode THEN rq[r].seen_find.names ELSE rq[r].seen_exec.names

C24_TotalStepsIsLength ==
  \A r \in Requests : Finished(r) =>
    Result(r).total_steps = Len(Result(r).execution_steps)

\* the step at which the reload of t turns out to fail or to assemble no agent
FailingStep(t) ==
  /\ Acts(t)
  /\ \/ FailsNow(t)
     \/ rl'[t].pc = "publish" /\ Len(rl'[t].new.names) = 0

\* C25: a reload that fails or yields zero agents leaves the tool manifest held
\* by the AgentManager and the AgentManager's own agent list as they were
C25_FailedReloadKeepsManager ==
  [][\A t \in Reloaders :
       FailingStep(t) => /\ dtm' = dtm
                         /\ am_sub_agents'.names = am_sub_agents.names]_vars

\* C26: the generic handler forwards to the underlying function only declared,
\* non-credential parameters: never an undeclared key of the agent's config,
\* never a credential
C26_OnlyDeclaredForwarded ==
  (Invoked /\ tk.called) =>
    \A k \in DOMAIN tk.forwarded :
      /\ k \in DOMAIN DefOf(tk.tool_id).parameters
      /\ ~DefOf(tk.tool_id).parameters[k].is_credential

Searched == tk.phase = "searched"
NoQueryText == <<"Loi: Khong tim thay query de tim kiem.">>
\* the aliases that the merged parameters give a non-empty value
AliasesGiven ==
  {i \in 1..Len(possible_query_keys) :
     possible_query_keys[i] \in DOMAIN tk.params /\ tk.params[possible_query_keys[i]] # ""}
\* position of a key in params.items()
PositionOf(key) ==
  CHOOSE i \in 1..Len(ItemsOrder(tk.tool, tk.params)) : ItemsOrder(tk.tool, tk.params)[i] = key
\* a key whose value the second rule may take
Plausible(key) ==
  /\ key \in DOMAIN tk.params
  /\ tk.params[key] \notin {"", Blank, NonString}
  /\ key \notin {"google_api_key", "google_cse_id", "api_token"}

\* C27: the web-search handler takes its query from the first alias (query, q,
\* search_query, search_term, text, input) with a non-empty value; failing that
\* from the first non-empty string value of the merged parameters whose key does
\* not end in _key, _id or _token, never a credential; when there is no such value
\* it returns the error text and searches nothing
C27_QueryExtraction ==
  Searched =>
    /\ AliasesGiven # {} =>
         /\ tk.query.found
         /\ \E i \in AliasesGiven :
              /\ \A j \in AliasesGiven : i <= j
              /\ tk.query.key = possible_query_keys[i]
              /\ tk.query.value = tk.params[possible_query_keys[i]]
    /\ (AliasesGiven = {} /\ \E k \in DOMAIN tk.params : Plausible(k)) =>
         /\ tk.query.found
         /\ Plausible(tk.query.key)
         /\ tk.query.value = tk.params[tk.query.key]
         /\ \A k \in DOMAIN tk.params :
              Plausible(k) => PositionOf(tk.query.key) <= PositionOf(k)
    /\ (AliasesGiven = {} /\ ~\E k \in DOMAIN tk.params : Plausible(k)) =>
         /\ ~tk.query.found
         /\ ~tk.returned.raised
         /\ tk.returned.kind = "error" /\ tk.returned.text = NoQueryText
    /\ (~tk.returned.raised /\ tk.returned.text # NoQueryText) =>
         /\ tk.query.found
         /\ tk.query.key \notin {"google_api_key", "google_cse_id"}

\* no alias has a value, the config holds both credentials and two free keys:
\* the search ran with the value of the first free key
C27_Witness ==
  /\ Searched
  /\ AliasesGiven = {}
  /\ {"note", "region", "google_api_key", "google_cse_id"} \subseteq DOMAIN tk.params
  /\ tk.query.key = "note"
  /\ tk.returned.kind = "result"

\* the watcher takes a config-change event
HandlesEvent == rl[Watcher].pc = "idle" /\ pending' = pending - 1
\* the watcher's decision on the event: accepted iff the cooldown has passed; a
\* rejected event changes neither the timestamp nor the Router
CooldownGuard ==
  HandlesEvent =>
    /\ rl'[Watcher].pc = "sleep" <=> now - last_modified >= 2
    /\ rl'[Watcher].pc = "sleep" => last_modified' = now
    /\ rl'[Watcher].pc # "sleep" =>
         /\ rl'[Watcher].pc = "idle"
         /\ last_modified' = last_modified
         /\ master' = master
\* the watcher goes on after the settle delay of an accepted event
AfterDelay == rl[Watcher].pc = "sleep" /\ Acts(Watcher)

C29_EnvOverrideScoped ==
  tk.phase = "env" =>
    /\ \A i \in Invocations :
         tk.inv[i].pc \in {"restore_key", "restore_cse", "returned"} =>
           tk.inv[i].used = CredsOf(i)
    /\ (\A i \in Invocations : tk.inv[i].pc = "returned") => tk.environ = tk.initial

\* C30: once initialization has succeeded, the Router's agent set is never
\* empty, whatever reloads succeed, fail or assemble no agent
C30_RouterNeverEmpty ==
  (booted /\ master.present) =>
    /\ Len(master.sub_agents.names) > 0
    /\ Len(master.agent_executor.tools.names) > 0

\* a reload has assembled no agent and the Router still has its agents
C30_Witness ==
  /\ booted /\ master.present
  /\ \E t \in Reloaders :
       rl[t].pc = "idle" /\ rl[t].outcome = "logged" /\ rl[t].why = "zero"
  /\ Len(am_sub_agents.names) = 0
  /\ Len(master.sub_agents.names) > 0
====
